---- MODULE Spec2Model ----
\* State-machine model of src/bench.py (class BenchReport): the iteration
\* driver (__call__/__iter__/__next__), the part scope (part) and the
\* statistics function (_get_stats).
EXTENDS Integers, Sequences, FiniteSets, TLC

\* ---------------------------------------------------------------- bounds
\* The driver on its own, with reset() (SpecDriver).
MaxRepeat  == 3   \* repeat counts range over 0..MaxRepeat
MaxClock   == 3   \* the timer's readings range over 0..MaxClock
MaxSamples == 4   \* cap on len(loop_benches)
\* The scopes inside the loop of a run (SpecScope).
ScopeClock   == 1 \* the timer's readings range over 0..ScopeClock
ScopeDepth   == 2 \* scopes open at the same time (nesting depth)
ScopeSamples == 1 \* cap on len(loop_benches)
ScopeOpened  == 2 \* scopes opened in one behaviour
\* The scopes and the driver with __call__ and reset() (SpecReset).
ResetRepeat  == 1 \* repeat counts range over 0..ResetRepeat
ResetClock   == 1 \* the timer's readings range over 0..ResetClock
ResetDepth   == 1 \* scopes open at the same time
ResetSamples == 1 \* cap on len(loop_benches)
ResetOpened  == 2 \* scopes opened in one behaviour
\* The scopes and the garbage collector (SpecGc).
GcDepth == 3      \* scopes open at the same time (nesting depth)
\* The scopes with the stores remembered at every entry (SpecFail).
FailClock == 2    \* the timer's readings range over 0..FailClock
FailDepth == 2    \* scopes open at the same time (nesting depth)
\* _get_stats (SpecStats).
\* Scopes, the driver and the reporting calls (SpecReport).
RepClock   == 1 \* the timer's readings range over 0..RepClock
RepDepth   == 2 \* scopes open at the same time
RepOpened  == 2 \* scopes opened in one behaviour

\* The loop of the README (SpecRun).
RunRepeat == 2 \* repeat counts range over 1..RunRepeat
RunClock  == 3 \* the timer's readings range over 0..RunClock

\* A run driven to its end with scopes at any moment (SpecLoop).
LoopRepeat == 2 \* repeat counts range over 0..LoopRepeat
LoopClock  == 3 \* the timer's readings range over 0..LoopClock
LoopDepth  == 2 \* scopes open at the same time (nesting depth)
LoopOpened == 2 \* scopes opened in one behaviour

MaxLen == 3       \* length of the sequences handed to _get_stats
MaxVal == 2       \* durations handed to _get_stats range over 0..MaxVal

\* ------------------------------------------------------------- constants
ns_to_ms == 1000000

\* Python's None is the empty tuple, a present value v is <<v>>.
None == << >>
Some(v) == << v >>
Val(o) == o[1]

\* An empty dict.
EmptyDict == [k \in {} |-> 0]

\* d[k] = v on a dict.
Put(d, k, v) == [x \in (DOMAIN d) \cup {k} |-> IF x = k THEN v ELSE d[x]]

\* The part names a caller passes: None (take the default) or an explicit one.
PartArgs == {"None", "core"}
\* The turn_gc_off argument: None (take the run default), True, False.
GcArgs == {None, Some(TRUE), Some(FALSE)}
\* What the body of a scope raises: a subclass of Exception, or a
\* BaseException that is not an Exception (KeyboardInterrupt, SystemExit).
Raised == {"Exception", "BaseException"}

VARIABLES
  default_repeat,       \* self.default_repeat
  default_turn_gc_off,  \* self.default_turn_gc_off
  parts_benches,        \* self.parts_benches : iteration -> (part -> ns)
  apart_benches,        \* self.apart_benches
  loop_benches,         \* self.loop_benches
  current_iteration,    \* self.current_iteration
  parts_names,          \* self.parts_names
  apart_names,          \* self.apart_names
  startlooptime,        \* self._startlooptime
  lastlooptime,         \* self._lastlooptime
  endlooptime,          \* self._endlooptime
  totaltime,            \* self.totaltime
  totalitertime,        \* self.totalitertime
  overhead,             \* self.overhead
  gc_enabled,           \* gc.isenabled()
  now,                  \* the last reading of self._timer
  stack,                \* the part() generators suspended at their yield, innermost last
  last,                 \* the last call made on the object and how it ended
  yielded,              \* the items __next__ returned since the last __iter__ / __call__ / reset
  phase,                \* where the protocol __call__, __iter__, __next__ ... StopIteration stands
  snaps,                \* for each suspended generator, the stores and loop_benches when it was entered
  opened,               \* number of scopes the caller has opened
  measures,             \* the argument of _get_stats
  stat,                 \* the value _get_stats returned
  order,                \* the iteration keys of the stores, in the order the dicts got them
  firstnext,            \* the timer reading of the first __next__ since the last __iter__ / __call__ / reset
  gen,                  \* the generator an iter_measures_* call returned, until it ends
  query,                \* the last reporting call and how it ended
  produced,             \* what the last generator made has yielded so far
  report                \* the rows get_stats_parts(as_pandas=False) returned

runVars == << default_repeat, default_turn_gc_off, parts_benches, apart_benches,
              loop_benches, current_iteration,
              parts_names, apart_names, startlooptime, lastlooptime, endlooptime,
              totaltime, totalitertime, overhead >>
histVars == << yielded, phase, firstnext >>
statVars == << measures, stat >>
auxVars == << snaps, opened >>
queryVars == << gen, query, produced, report >>
vars == << runVars, order, gc_enabled, now, stack, last, histVars, auxVars, statVars,
           queryVars >>

\* ------------------------------------------------------------ helpers
RECURSIVE Sum(_)
\* sum(list)
Sum(s) == IF s = << >> THEN 0 ELSE s[1] + Sum(Tail(s))

\* The record kept of the last call: the method, its arguments, what the
\* body of the scope did (for the exit of a scope) and what the caller got.
Call(op, n, partname, report_apart, raised, outcome) ==
  [op |-> op, n |-> n, partname |-> partname, report_apart |-> report_apart,
   raised |-> raised, outcome |-> outcome]

\* The record kept of the last reporting call: the method, its argument and
\* what the caller got.
Asked(op, arg, outcome) == [op |-> op, arg |-> arg, outcome |-> outcome]

\* ------------------------------------------------------------ _get_stats
\* Exact rationals stand for Python's floats.
Frac(a, b) == [num |-> a, den |-> b]
\* x / k
FDiv(x, k) == Frac(x.num, x.den * k)
\* x + t for an integer t
FAdd(x, t) == Frac(x.num + t * x.den, x.den)
\* Mutant: the comparison is reversed.
FLt(x, t) == x.num < t * x.den
\* x > t for an integer t ("stat['min'] > t")
FGt(x, t) == x.num > t * x.den

\* One pass of the loop "for t in measures" over stat.
StatStep(st, t) ==
  IF t # None
  THEN [st EXCEPT !.total = FAdd(st.total, Val(t)),
                  !.n = st.n + 1,
                  !.min = IF st.min = None \/ FGt(Val(st.min), Val(t))
                          THEN Some(Frac(Val(t), 1)) ELSE st.min]
  ELSE st

RECURSIVE StatLoop(_, _)
StatLoop(st, ms) ==
  IF ms = << >> THEN st ELSE StatLoop(StatStep(st, Head(ms)), Tail(ms))

\* The average: total / n when n > 0.
StatAvg(st) == IF st.n > 0 THEN Some(FDiv(st.total, st.n)) ELSE None

_get_stats(ms) ==
  LET s0 == [total |-> Frac(0, 1), n |-> 0, avg |-> None, min |-> None]
      s1 == StatLoop(s0, ms)
      s2 == [s1 EXCEPT !.total = FDiv(s1.total, ns_to_ms),
                       !.min = IF s1.min # None THEN Some(FDiv(Val(s1.min), ns_to_ms)) ELSE None]
  IN  [s2 EXCEPT !.avg = StatAvg(s2)]

\* ------------------------------------------------------------ reset
\* The dicts the object holds, with the order their iteration keys were
\* set in.
Held == [parts |-> parts_benches, apart |-> apart_benches, order |-> order]

\* The generators of part() suspended when reset() replaces the dicts keep
\* the old ones (b, b_anti): what they commit later is no longer seen
\* through self.
Orphan(st) == [k \in DOMAIN st |-> [st[k] EXCEPT !.live = FALSE]]

\* A generator of iter_measures_* that has started keeps the dicts it bound
\* (b, b1, b2): when reset() replaces them it goes on over the old ones,
\* which only the part() generators suspended at that moment still write to.
OrphanGen ==
  IF gen # None /\ Val(gen).started /\ Val(gen).own = None
  THEN Some([Val(gen) EXCEPT !.own = Some(Held),
                             !.feeders = {k \in DOMAIN stack : stack[k].live}])
  ELSE gen

\* Mutant: the name sets are not cleared.
ClearedKeepsNames ==
  /\ parts_benches' = EmptyDict
  /\ apart_benches' = EmptyDict
  /\ loop_benches' = << >>
  /\ order' = << >>
  /\ current_iteration' = 0
  /\ UNCHANGED << parts_names, apart_names >>
  /\ lastlooptime' = None
  /\ endlooptime' = None
  /\ totaltime' = None
  /\ totalitertime' = None
  /\ overhead' = None
  /\ stack' = Orphan(stack)
  /\ gen' = OrphanGen

\* The body of reset() but for "self._startlooptime = None": reset() called
\* by itself leaves that None, __call__ assigns the field again right after
\* its reset().
Cleared ==
  /\ parts_benches' = EmptyDict
  /\ apart_benches' = EmptyDict
  /\ loop_benches' = << >>
  /\ order' = << >>
  /\ current_iteration' = 0
  /\ parts_names' = {}
  /\ apart_names' = {}
  /\ lastlooptime' = None
  /\ endlooptime' = None
  /\ totaltime' = None
  /\ totalitertime' = None
  /\ overhead' = None
  /\ stack' = Orphan(stack)
  /\ gen' = OrphanGen

\* T.reset()
reset ==
  /\ Cleared
  /\ startlooptime' = None
  /\ last' = Call("reset", None, "None", FALSE, "ok", "ok")
  /\ yielded' = << >>
  /\ phase' = "off"
  /\ firstnext' = None
  /\ UNCHANGED << default_repeat, default_turn_gc_off, gc_enabled, now, statVars,
                  query, produced, report >>

\* ------------------------------------------------------------ __init__
InitRun ==
  /\ default_repeat \in 0..MaxRepeat
  /\ default_turn_gc_off \in BOOLEAN
  /\ parts_benches = EmptyDict
  /\ apart_benches = EmptyDict
  /\ loop_benches = << >>
  /\ current_iteration = 0
  /\ parts_names = {}
  /\ apart_names = {}
  /\ startlooptime = None
  /\ lastlooptime = None
  /\ endlooptime = None
  /\ totaltime = None
  /\ totalitertime = None
  /\ overhead = None
  /\ gc_enabled \in BOOLEAN
  /\ now = 0
  /\ stack = << >>
  /\ last = Call("init", None, "None", FALSE, "ok", "ok")
  /\ yielded = << >>
  /\ phase = "off"
  /\ snaps = << >>
  /\ opened = 0
  /\ order = << >>
  /\ firstnext = None
  /\ gen = None
  /\ query = Asked("none", "None", "ok")
  /\ produced = << >>
  /\ report = {}

Init ==
  /\ InitRun
  /\ measures = << >>
  /\ stat = None

\* ------------------------------------------------------------ __call__
\* The repeat count __call__(n) leaves: n unless it is None.
NewRepeat(n) == IF n # None THEN Val(n) ELSE default_repeat

\* T(n); d is the time that passes before the timer is read.
__call__(n, d) ==
  /\ default_repeat' = NewRepeat(n)
  /\ Cleared
  /\ startlooptime' = Some(now + d)
  /\ now' = now + d
  /\ last' = Call("call", n, "None", FALSE, "ok", "ok")
  /\ yielded' = << >>
  /\ phase' = "begun"
  /\ firstnext' = None
  /\ UNCHANGED << default_turn_gc_off, gc_enabled, statVars, query, produced, report >>

\* ------------------------------------------------------------ __iter__
__iter__(d) ==
  /\ current_iteration' = 0
  /\ lastlooptime' = Some(now + d)
  /\ now' = now + d
  /\ last' = Call("iter", None, "None", FALSE, "ok", "ok")
  /\ yielded' = << >>
  /\ phase' = IF phase = "begun" THEN "driving" ELSE "off"
  /\ firstnext' = None
  /\ UNCHANGED << default_repeat, default_turn_gc_off, parts_benches, apart_benches,
                  loop_benches, parts_names, apart_names,
                  startlooptime, endlooptime, totaltime, totalitertime, overhead,
                  gc_enabled, stack, statVars, order, queryVars >>

\* ------------------------------------------------------------ __next__
\* "delta = t2 - self._lastlooptime"
LoopDelta(t2) == t2 - Val(lastlooptime)
\* Mutant: the first two calls record nothing.
RecordsDeltaLate(ci) == ci > 1
\* Mutant: the first call records the time since __iter__.
RecordsDeltaAlways(ci) == TRUE
\* "if self.current_iteration > 0": the delta is recorded.
RecordsDelta(ci) == ci > 0
\* Mutant: off by one, one item too many.
ContinuesOffByOne(ci, n) == ci <= n
\* Mutant: the sequence never ends.
ContinuesAlways(ci, n) == TRUE
\* "if self.current_iteration < self.default_repeat": one more item.
Continues(ci, n) == ci < n
\* Mutant: the total is taken from the last boundary, not from the loop start.
TotalTimeFromLast(t2) == t2 - Val(lastlooptime)
\* "self.totaltime = self._lastlooptime - self._startlooptime"
TotalTime(t2) == t2 - Val(startlooptime)

__next__(d) ==
  /\ now' = now + d
  /\ UNCHANGED << default_repeat, default_turn_gc_off, parts_benches, apart_benches,
                  parts_names, apart_names, startlooptime, endlooptime,
                  gc_enabled, stack, statVars, order, queryVars >>
  /\ IF lastlooptime = None
     THEN \* t2 - None raises TypeError before anything is assigned
          /\ last' = Call("next", None, "None", FALSE, "ok", "TypeError")
          /\ UNCHANGED << loop_benches, current_iteration, lastlooptime, totaltime,
                          totalitertime, overhead, yielded, phase, firstnext >>
     ELSE LET t2 == now + d
              lb == IF RecordsDelta(current_iteration)
                    THEN Append(loop_benches, LoopDelta(t2)) ELSE loop_benches
          IN  /\ loop_benches' = lb
              /\ lastlooptime' = Some(t2)
              /\ firstnext' = IF firstnext = None THEN Some(t2) ELSE firstnext
              /\ IF Continues(current_iteration, default_repeat)
                 THEN /\ current_iteration' = current_iteration + 1
                      /\ yielded' = Append(yielded, current_iteration + 1)
                      /\ last' = Call("next", None, "None", FALSE, "ok", "yield")
                      /\ UNCHANGED << totaltime, totalitertime, overhead, phase >>
                 ELSE IF startlooptime = None
                 THEN \* t2 - None raises TypeError at "self.totaltime = ..."
                      /\ last' = Call("next", None, "None", FALSE, "ok", "TypeError")
                      /\ phase' = "off"
                      /\ UNCHANGED << current_iteration, totaltime, totalitertime,
                                      overhead, yielded >>
                 ELSE /\ totaltime' = Some(TotalTime(t2))
                      /\ totalitertime' = Some(Sum(lb))
                      /\ overhead' = Some(TotalTime(t2) - Sum(lb))
                      /\ last' = Call("next", None, "None", FALSE, "ok", "StopIteration")
                      /\ phase' = IF phase = "driving" THEN "done" ELSE "off"
                      /\ UNCHANGED << current_iteration, yielded >>

\* ------------------------------------------------------------ part
\* "partname = 'core' if partname is None else partname" and its twin.
PartName(partname, report_apart) ==
  IF partname = "None" THEN (IF report_apart THEN "core" ELSE "setup") ELSE partname

\* "if turn_gc_off is None: turn_gc_off = self.default_turn_gc_off"
TurnGcOff(turn_gc_off) ==
  IF turn_gc_off = None THEN default_turn_gc_off ELSE Val(turn_gc_off)

\* Mutant: the name set of the class asked for.
p_same(report_apart) == IF report_apart THEN apart_names ELSE parts_names
\* p_anti: the name set of the other class.
p_anti(report_apart) == IF report_apart THEN parts_names ELSE apart_names

\* Mutant: the check is missing.
InconsistentNever(name, report_apart) == FALSE
\* "if partname in p_anti: raise AttributeError"
Inconsistent(name, report_apart) == name \in p_anti(report_apart)

\* gc.isenabled() after "if turn_gc_off: gc.disable()"
GcAfterEnter(tgo) == IF tgo THEN FALSE ELSE gc_enabled

\* gc.isenabled() after "if gcold: gc.enable()"
GcAfterExit(gcold) == IF gcold THEN TRUE ELSE gc_enabled

\* "except Exception": what the generator catches of what the body raises.
Caught(e) == e = "Exception"

\* Mutant: the except clause lacks its "raise".
PropagatesUncaught(e) == e \in Raised /\ ~Caught(e)
\* What leaves the generator again: the except clause ends in "raise", and
\* what it does not catch passes through. The code after the try statement
\* runs only when nothing was raised.
Propagates(e) == e \in Raised

\* Mutant: the name is not registered.
AddNothing(p, name) == p
\* "p.add(partname)"
Add(p, name) == p \cup {name}

\* Entering "with self.part(partname, report_apart, turn_gc_off)": the code
\* of part() up to its yield.
PartEnter(partname, report_apart, turn_gc_off, d) ==
  LET name == PartName(partname, report_apart)
      tgo == TurnGcOff(turn_gc_off)
  IN  /\ gc_enabled' = GcAfterEnter(tgo)
      /\ UNCHANGED << default_repeat, default_turn_gc_off, parts_benches, apart_benches,
                      loop_benches, current_iteration,
                      startlooptime, lastlooptime, endlooptime, totaltime, totalitertime,
                      overhead, histVars, statVars, order, queryVars >>
      /\ IF Inconsistent(name, report_apart)
         THEN /\ last' = Call("part", None, name, report_apart, "ok", "AttributeError")
              /\ UNCHANGED << parts_names, apart_names, now, stack >>
         ELSE /\ parts_names' = IF report_apart THEN parts_names ELSE Add(parts_names, name)
              /\ apart_names' = IF report_apart THEN Add(apart_names, name) ELSE apart_names
              /\ now' = now + d
              /\ stack' = Append(stack, [partname |-> name, report_apart |-> report_apart,
                                         i |-> current_iteration, start_time |-> now + d,
                                         gcold |-> gc_enabled, live |-> TRUE])
              /\ last' = Call("part", None, name, report_apart, "ok", "ok")

\* "if i not in b: b[i] = defaultdict(None)"
Ensure(b, i) == IF i \in DOMAIN b THEN b ELSE Put(b, i, EmptyDict)

\* Mutant: the store of the other class gets no entry.
EnsureOwnOnly(b_anti, i) == b_anti
\* "if i not in b_anti: b_anti[i] = defaultdict(None)"
EnsureAnti(b_anti, i) == Ensure(b_anti, i)

\* A dict keeps its keys in the order they were first set: the key i joins
\* the end unless it is there.
NewKey(keys, i) == IF \E k \in DOMAIN keys : keys[k] = i THEN keys ELSE Append(keys, i)

\* Mutant: the index at exit.
CommitIndexAtExit(sc) == current_iteration
\* "i = self.current_iteration", read before the yield and used after it.
CommitIndex(sc) == sc.i

\* Mutant: the delta replaces what was recorded.
AddDeltaOverwrite(b, i, name, delta) == Put(b, i, Put(b[i], name, delta))
\* "if partname not in b[i] or b[i][partname] is None: b[i][partname] = delta
\*  else: b[i][partname] += delta", on a dict b that has the key i.
AddDelta(b, i, name, delta) ==
  Put(b, i, Put(b[i], name, IF name \in DOMAIN b[i] THEN b[i][name] + delta ELSE delta))

Top == stack[Len(stack)]
Pop == SubSeq(stack, 1, Len(stack) - 1)

\* The dicts D after the lines 194-203 of the generator sc, which bound
\* them as b and b_anti, with delta = end_time - start_time.
Commit(D, sc, delta) ==
  LET i == CommitIndex(sc)
  IN  [order |-> NewKey(D.order, i),
       parts |-> IF sc.report_apart THEN EnsureAnti(D.parts, i)
                 ELSE AddDelta(Ensure(D.parts, i), i, sc.partname, delta),
       apart |-> IF sc.report_apart THEN AddDelta(Ensure(D.apart, i), i, sc.partname, delta)
                 ELSE EnsureAnti(D.apart, i)]

\* The part() generator at position k of the stack writes to the dicts
\* that only the generator gen still reads.
Feeds(k) == gen # None /\ k \in Val(gen).feeders
\* gen when the part() generator at k ends without a commit.
Unfed(k) == IF Feeds(k) THEN Some([Val(gen) EXCEPT !.feeders = @ \ {k}]) ELSE gen
\* gen when the part() generator sc at k ends with its commit.
Fed(k, sc, delta) ==
  IF Feeds(k)
  THEN Some([Val(gen) EXCEPT !.feeders = @ \ {k},
                             !.own = Some(Commit(Val(@), sc, delta))])
  ELSE gen

\* The body of the innermost scope ends, normally (e = "ok") or raising e:
\* the code of part() from its yield on. d is the time that passes before
\* end_time is read.
PartLeave(e, d) ==
  /\ stack # << >>
  /\ stack' = Pop
  /\ gc_enabled' = IF e = "ok" \/ Caught(e) THEN GcAfterExit(Top.gcold) ELSE gc_enabled
  /\ UNCHANGED << default_repeat, default_turn_gc_off, loop_benches, current_iteration,
                  parts_names, apart_names, startlooptime, lastlooptime, endlooptime,
                  totaltime, totalitertime, overhead, histVars, statVars,
                  query, produced, report >>
  /\ IF Propagates(e)
     THEN /\ last' = Call("exit", None, "None", FALSE, e, e)
          /\ gen' = Unfed(Len(stack))
          /\ UNCHANGED << parts_benches, apart_benches, order, now >>
     ELSE LET sc == Top
              delta == (now + d) - sc.start_time
          IN  /\ now' = now + d
              /\ last' = Call("exit", None, "None", FALSE, e, "ok")
              /\ gen' = Fed(Len(stack), sc, delta)
              /\ IF ~sc.live
                 THEN UNCHANGED << parts_benches, apart_benches, order >>
                 ELSE /\ order' = Commit(Held, sc, delta).order
                      /\ parts_benches' = Commit(Held, sc, delta).parts
                      /\ apart_benches' = Commit(Held, sc, delta).apart

\* The body ends normally.
PartExit(d) == PartLeave("ok", d)
\* The body raises e; the timer is not read.
PartRaise(e) == PartLeave(e, 0)

\* ------------------------------------------------------------ iter_measures_part
\* The keys of the dict b in the order "for i in b" visits them.
RECURSIVE KeysIn(_, _)
KeysIn(keys, b) ==
  IF keys = << >> THEN << >>
  ELSE IF Head(keys) \in DOMAIN b THEN << Head(keys) >> \o KeysIn(Tail(keys), b)
  ELSE KeysIn(Tail(keys), b)

\* The dict a generator bound under a name: one of the two dicts of D, or
\* the empty list "b2 = []".
Deref(ref, D) ==
  IF ref = "parts" THEN D.parts ELSE IF ref = "aparts" THEN D.apart ELSE EmptyDict

\* A generator function: the call returns a generator and runs none of the
\* body, which starts at the first next() on it. The generator binds its
\* dicts (b1, b2) when it starts, "for i in b1" then stands at position pos
\* of the keys of b1 and remembers the size b1 had; own holds the dicts
\* once the object has replaced them, and feeders the part() generators
\* that still write to them.
NewGenerator(fn, arg) ==
  /\ gen' = Some([fn |-> fn, arg |-> arg, started |-> FALSE, b1 |-> "none", b2 |-> "none",
                  pos |-> 0, size |-> 0, own |-> None, feeders |-> {}])
  /\ query' = Asked(fn, arg, "ok")
  /\ produced' = << >>
  /\ UNCHANGED << runVars, order, gc_enabled, now, stack, last, histVars, auxVars,
                  statVars, report >>

\* Mutant: the names of both classes are looked up in parts_benches.
PartStoreInline(part_or_apart) ==
  IF part_or_apart \in parts_names \cup apart_names THEN Some("parts") ELSE None
\* "if part_or_apart in self.parts_names: b = self.parts_benches
\*  elif part_or_apart in self.apart_names: b = self.apart_benches
\*  else: raise KeyError", None standing for the KeyError.
PartStore(part_or_apart) ==
  IF part_or_apart \in parts_names THEN Some("parts")
  ELSE IF part_or_apart \in apart_names THEN Some("aparts")
  ELSE None

\* "if part_or_apart in b[i]: t = b[i][part_or_apart]": what the body of
\* the loop yields for the key i, None when it yields nothing.
PartSample(b, part_or_apart, i) ==
  IF part_or_apart \in DOMAIN b[i] THEN Some(b[i][part_or_apart]) ELSE None

\* "for i in b: if part_or_apart in b[i]: ... yield t", over the keys left.
RECURSIVE PartSamples(_, _, _)
PartSamples(b, part_or_apart, keys) ==
  IF keys = << >> THEN << >>
  ELSE LET t == PartSample(b, part_or_apart, Head(keys))
           rest == PartSamples(b, part_or_apart, Tail(keys))
       IN  IF t # None THEN << Val(t) >> \o rest ELSE rest

\* list(self.iter_measures_part(part_or_apart)) when no KeyError is raised.
MeasuresPart(part_or_apart) ==
  LET b == Deref(Val(PartStore(part_or_apart)), Held)
  IN  PartSamples(b, part_or_apart, KeysIn(order, b))

iter_measures_part(part_or_apart) == NewGenerator("iter_measures_part", part_or_apart)

\* ------------------------------------------------ iter_measures_parts_globalized
Sections == {"parts", "aparts", "all"}

\* Mutant: "all" leaves the aparts out.
SectionStoresNoAparts(section) ==
  IF section = "aparts" THEN << "aparts", "none" >>
  ELSE << "parts", "none" >>
\* b1 and b2 of the section; "b2 = []" has no keys.
SectionStores(section) ==
  IF section = "parts" THEN << "parts", "none" >>
  ELSE IF section = "aparts" THEN << "aparts", "none" >>
  ELSE << "parts", "aparts" >>

\* Mutant: a total of 0 is taken for no total.
AddTZeroIsNone(iter_t, t) ==
  IF iter_t # None /\ Val(iter_t) # 0 THEN Some(Val(iter_t) + t)
  ELSE IF t = 0 THEN None ELSE Some(t)
\* "iter_t = iter_t + t if iter_t else t": None and 0 are both false.
AddT(iter_t, t) ==
  IF iter_t # None /\ Val(iter_t) # 0 THEN Some(Val(iter_t) + t) ELSE Some(t)

\* "for p in b[i]: t = b[i][p]; if t is not None: iter_t = ...", over the
\* parts left; integers add up the same in any order.
RECURSIVE AddParts(_, _, _)
AddParts(iter_t, d, ps) ==
  IF ps = {} THEN iter_t
  ELSE LET p == CHOOSE x \in ps : TRUE
       IN  AddParts(AddT(iter_t, d[p]), d, ps \ {p})

\* iter_t after the body of "for i in b1" for the key i.
IterTotal(b1, b2, i) ==
  LET t1 == AddParts(None, b1[i], DOMAIN b1[i])
  IN  IF i \in DOMAIN b2 THEN AddParts(t1, b2[i], DOMAIN b2[i]) ELSE t1

\* "for i in b1: ... if iter_t is not None: yield iter_t", over the keys left.
RECURSIVE IterTotals(_, _, _)
IterTotals(b1, b2, keys) ==
  IF keys = << >> THEN << >>
  ELSE LET t == IterTotal(b1, b2, Head(keys))
           rest == IterTotals(b1, b2, Tail(keys))
       IN  IF t # None THEN << Val(t) >> \o rest ELSE rest

\* list(self.iter_measures_parts_globalized(section)) for a section known.
MeasuresGlobalized(section) ==
  LET bs == SectionStores(section)
      b1 == Deref(bs[1], Held)
  IN  IterTotals(b1, Deref(bs[2], Held), KeysIn(order, b1))

iter_measures_parts_globalized(section) ==
  NewGenerator("iter_measures_parts_globalized", section)

\* ------------------------------------------------------- the generators
\* The first next(g) runs the body from its top: the argument is known, or
\* KeyError is raised.
Known(g) ==
  IF g.fn = "iter_measures_part" THEN PartStore(g.arg) # None ELSE g.arg \in Sections

\* The generator g where "for i in b" / "for i in b1" begins: the dicts are
\* bound and the iterator made remembers the size of the dict.
Started(g) ==
  LET refs == IF g.fn = "iter_measures_part" THEN << Val(PartStore(g.arg)), "none" >>
              ELSE SectionStores(g.arg)
  IN  [g EXCEPT !.started = TRUE, !.b1 = refs[1], !.b2 = refs[2],
                !.size = Cardinality(DOMAIN Deref(refs[1], Held))]

\* The dicts the generator g reads: those of the object, or the ones it
\* kept when the object replaced them.
Dicts(g) == IF g.own = None THEN Held ELSE Val(g.own)

\* The keys of the dict that "for i in b1" goes over, in its order.
Keys(g) == KeysIn(Dicts(g).order, Deref(g.b1, Dicts(g)))

\* The iterator of a dict raises RuntimeError("dictionary changed size
\* during iteration") when the dict has not the size it had at the start.
Changed(g) == Cardinality(DOMAIN Deref(g.b1, Dicts(g))) # g.size

\* What the body of the loop yields for the key i, read now: None when it
\* yields nothing.
ValueAt(g, i) ==
  IF g.fn = "iter_measures_part" THEN PartSample(Deref(g.b1, Dicts(g)), g.arg, i)
  ELSE IterTotal(Deref(g.b1, Dicts(g)), Deref(g.b2, Dicts(g)), i)

\* The position of the next key the body yields for, 0 when the loop ends
\* without a yield.
NextPos(g) ==
  LET later == {k \in (g.pos + 1)..Len(Keys(g)) : ValueAt(g, Keys(g)[k]) # None}
  IN  IF later = {} THEN 0 ELSE CHOOSE k \in later : \A m \in later : k <= m

\* What the generator g yields from where it stands up to its end.
Rest(g) ==
  LET keys == SubSeq(Keys(g), g.pos + 1, Len(Keys(g)))
  IN  IF g.fn = "iter_measures_part" THEN PartSamples(Deref(g.b1, Dicts(g)), g.arg, keys)
      ELSE IterTotals(Deref(g.b1, Dicts(g)), Deref(g.b2, Dicts(g)), keys)

\* next(g) for the generator g an iter_measures_* call returned: the body
\* runs from where it stands to its next yield or to its end, on the dicts
\* as they are now.
GenNext ==
  /\ gen # None
  /\ UNCHANGED << runVars, order, gc_enabled, now, stack, last, histVars, auxVars,
                  statVars, report >>
  /\ LET g0 == Val(gen)
     IN  IF ~g0.started /\ ~Known(g0)
         THEN /\ gen' = None
              /\ query' = Asked("next", g0.arg, "KeyError")
              /\ UNCHANGED produced
         ELSE LET g == IF g0.started THEN g0 ELSE Started(g0)
                  k == NextPos(g)
              IN  IF Changed(g)
                  THEN /\ gen' = None
                       /\ query' = Asked("next", g.arg, "RuntimeError")
                       /\ UNCHANGED produced
                  ELSE IF k = 0
                  THEN /\ gen' = None
                       /\ query' = Asked("next", g.arg, "StopIteration")
                       /\ UNCHANGED produced
                  ELSE /\ gen' = Some([g EXCEPT !.pos = k])
                       /\ query' = Asked("next", g.arg, "yield")
                       /\ produced' = Append(produced, Val(ValueAt(g, Keys(g)[k])))

\* list(g): next(g) until the generator ends, nothing else happening in
\* between.
Consume ==
  /\ gen # None
  /\ gen' = None
  /\ UNCHANGED << runVars, order, gc_enabled, now, stack, last, histVars, auxVars,
                  statVars, report >>
  /\ LET g0 == Val(gen)
     IN  IF ~g0.started /\ ~Known(g0)
         THEN /\ query' = Asked("list", g0.arg, "KeyError")
              /\ UNCHANGED produced
         ELSE LET g == IF g0.started THEN g0 ELSE Started(g0)
              IN  IF Changed(g)
                  THEN /\ query' = Asked("list", g.arg, "RuntimeError")
                       /\ UNCHANGED produced
                  ELSE /\ query' = Asked("list", g.arg, "ok")
                       /\ produced' = produced \o Rest(g)

\* ------------------------------------------------------------ get_stats_parts
\* The durations a generator yields, as _get_stats takes them.
Yields(ts) == [k \in DOMAIN ts |-> Some(ts[k])]

\* One dict of the list returned: {"typ": .., "section": ..} | stat
Row(typ, section, st) == [typ |-> typ, section |-> section, stat |-> st]

\* get_stats_parts(as_pandas=False); the rows of the parts come in the
\* order of two sets, so the list is taken as the set of its rows.
StatsParts ==
  {Row("parts", p, _get_stats(Yields(MeasuresPart(p)))) : p \in parts_names}
  \cup {Row("parts", "SUBTOTAL", _get_stats(Yields(MeasuresGlobalized("parts"))))}
  \cup {Row("aparts", p, _get_stats(Yields(MeasuresPart(p)))) : p \in apart_names}
  \cup {Row("aparts", "SUBTOTAL", _get_stats(Yields(MeasuresGlobalized("aparts"))))}
  \cup {Row("P+A", "TOTAL", _get_stats(Yields(MeasuresGlobalized("all"))))}

get_stats_parts ==
  /\ report' = StatsParts
  /\ query' = Asked("get_stats_parts", "None", "ok")
  /\ UNCHANGED << runVars, order, gc_enabled, now, stack, last, histVars, auxVars,
                  statVars, gen, produced >>

\* ------------------------------------------------------------ the object
\* The time that passes before a reading of the timer, the readings staying
\* within 0..max.
Ticks(max) == {d \in 0..1 : now + d <= max}
\* The arguments of __call__: None or a repeat count.
Repeats(max) == {None} \cup {Some(k) : k \in 0..max}
\* A scope may be entered when fewer than depth scopes are open; a call that
\* raises AttributeError opens none.
MayEnter(pn, ra, depth) ==
  Inconsistent(PartName(pn, ra), ra) \/ Len(stack) < depth

\* BenchReport(name) in a fresh interpreter: repeat=1, turn_gc_off=True and
\* the collector enabled.
InitDefault ==
  /\ Init
  /\ default_repeat = 1
  /\ default_turn_gc_off = TRUE
  /\ gc_enabled = TRUE

\* The stores and loop_benches as a scope entered now finds them.
Snapshot == << parts_benches, apart_benches, loop_benches >>
\* snaps follows stack: one snapshot per generator that got to its yield.
SnapEnter == snaps' = IF Len(stack') > Len(stack) THEN Append(snaps, Snapshot) ELSE snaps
SnapLeave == snaps' = SubSeq(snaps, 1, Len(snaps) - 1)
\* opened counts the generators that got to their yield.
CountEnter == opened' = IF Len(stack') > Len(stack) THEN opened + 1 ELSE opened

\* The iteration driver: for i in T(n), and reset().
NextDriver ==
  \/ \E n \in Repeats(MaxRepeat), d \in Ticks(MaxClock) :
        __call__(n, d) /\ UNCHANGED auxVars
  \/ reset /\ UNCHANGED auxVars
  \/ \E d \in Ticks(MaxClock) : __iter__(d) /\ UNCHANGED auxVars
  \/ \E d \in Ticks(MaxClock) :
        Len(loop_benches) < MaxSamples /\ __next__(d) /\ UNCHANGED auxVars

SpecDriver == Init /\ [][NextDriver]_vars

\* Scopes opened, left and failed around and inside the loop of a run that
\* was constructed and iterated, turn_gc_off left to the run's default.
NextScope ==
  \/ \E d \in Ticks(ScopeClock) : __iter__(d) /\ UNCHANGED auxVars
  \/ \E d \in Ticks(ScopeClock) :
        Len(loop_benches) < ScopeSamples /\ __next__(d) /\ UNCHANGED auxVars
  \/ \E pn \in PartArgs, ra \in BOOLEAN, d \in Ticks(ScopeClock) :
        /\ opened < ScopeOpened
        /\ MayEnter(pn, ra, ScopeDepth)
        /\ PartEnter(pn, ra, None, d)
        /\ CountEnter
        /\ UNCHANGED snaps
  \/ \E d \in Ticks(ScopeClock) : PartExit(d) /\ UNCHANGED auxVars
  \/ \E e \in Raised : PartRaise(e) /\ UNCHANGED auxVars

SpecScope == InitDefault /\ [][NextScope]_vars

\* The whole object: scopes and the driver, __call__ and reset() included,
\* every scope under the one explicit name "core", in either class.
NextReset ==
  \/ \E n \in Repeats(ResetRepeat), d \in Ticks(ResetClock) :
        __call__(n, d) /\ UNCHANGED auxVars
  \/ reset /\ UNCHANGED auxVars
  \/ \E d \in Ticks(ResetClock) : __iter__(d) /\ UNCHANGED auxVars
  \/ \E d \in Ticks(ResetClock) :
        Len(loop_benches) < ResetSamples /\ __next__(d) /\ UNCHANGED auxVars
  \/ \E pn \in {"core"}, ra \in BOOLEAN, d \in Ticks(ResetClock) :
        /\ opened < ResetOpened
        /\ MayEnter(pn, ra, ResetDepth)
        /\ PartEnter(pn, ra, None, d)
        /\ CountEnter
        /\ UNCHANGED snaps
  \/ \E d \in Ticks(ResetClock) : PartExit(d) /\ UNCHANGED auxVars
  \/ \E e \in Raised : PartRaise(e) /\ UNCHANGED auxVars

SpecReset == InitDefault /\ [][NextReset]_vars

\* Scopes and the collector: every initial state, run default and
\* turn_gc_off argument, the timer standing still.
NextGc ==
  \/ \E pn \in PartArgs, ra \in BOOLEAN, tg \in GcArgs :
        MayEnter(pn, ra, GcDepth) /\ PartEnter(pn, ra, tg, 0) /\ UNCHANGED auxVars
  \/ PartExit(0) /\ UNCHANGED auxVars
  \/ \E e \in Raised : PartRaise(e) /\ UNCHANGED auxVars

SpecGc == Init /\ [][NextGc]_vars

\* Scopes, nested or not, whose bodies end normally or fail, with the
\* stores remembered at every entry.
NextFail ==
  \/ \E pn \in PartArgs, ra \in BOOLEAN, d \in Ticks(FailClock) :
        /\ MayEnter(pn, ra, FailDepth)
        /\ PartEnter(pn, ra, None, d)
        /\ SnapEnter
        /\ UNCHANGED opened
  \/ \E d \in Ticks(FailClock) : PartExit(d) /\ SnapLeave /\ UNCHANGED opened
  \/ \E e \in Raised : PartRaise(e) /\ SnapLeave /\ UNCHANGED opened

SpecFail == InitDefault /\ [][NextFail]_vars

\* The part p has a sample under the iteration i of the store b.
Has(b, i, p) == i \in DOMAIN b /\ p \in DOMAIN b[i]
\* A scope of the part p is open.
IsOpen(p) == \E k \in DOMAIN stack : stack[k].partname = p
\* The body of the for loop is running.
InBody == phase = "driving" /\ current_iteration >= 1

\* for _ in T(n):
\*     with T.part(): ...                           ("setup", inline)
\*     with T.part("core", report_apart=True): ...  (separate)
\* T.get_stats_parts(as_pandas=False)
\* the two scopes of an iteration in either order, nested or not.
NextRun ==
  \/ \E n \in 1..RunRepeat, d \in Ticks(RunClock) :
        phase = "off" /\ __call__(Some(n), d) /\ UNCHANGED auxVars
  \/ \E d \in Ticks(RunClock) : phase = "begun" /\ __iter__(d) /\ UNCHANGED auxVars
  \/ \E d \in Ticks(RunClock) :
        /\ phase = "driving"
        /\ stack = << >>
        /\ current_iteration = 0
             \/ /\ Has(parts_benches, current_iteration, "setup")
                /\ Has(apart_benches, current_iteration, "core")
        /\ __next__(d)
        /\ UNCHANGED auxVars
  \/ \E d \in Ticks(RunClock) :
        /\ InBody
        /\ ~IsOpen("setup") /\ ~Has(parts_benches, current_iteration, "setup")
        /\ PartEnter("None", FALSE, None, d)
        /\ UNCHANGED auxVars
  \/ \E d \in Ticks(RunClock) :
        /\ InBody
        /\ ~IsOpen("core") /\ ~Has(apart_benches, current_iteration, "core")
        /\ PartEnter("core", TRUE, None, d)
        /\ UNCHANGED auxVars
  \/ \E d \in Ticks(RunClock) : PartExit(d) /\ UNCHANGED auxVars
  \/ phase = "done" /\ get_stats_parts

SpecRun == InitDefault /\ [][NextRun]_vars

\* for _ in T(n): ... driven to its end, for every n, with scopes of either
\* class entered, left and failed at any moment: before the loop, inside
\* its body, across its advances and after its end, nested or not.
NextLoop ==
  \/ \E n \in 0..LoopRepeat, d \in Ticks(LoopClock) :
        last.op = "init" /\ __call__(Some(n), d) /\ UNCHANGED auxVars
  \/ \E d \in Ticks(LoopClock) : phase = "begun" /\ __iter__(d) /\ UNCHANGED auxVars
  \/ \E d \in Ticks(LoopClock) : phase = "driving" /\ __next__(d) /\ UNCHANGED auxVars
  \/ \E ra \in BOOLEAN, d \in Ticks(LoopClock) :
        /\ last.op # "init"
        /\ opened < LoopOpened
        /\ MayEnter("core", ra, LoopDepth)
        /\ PartEnter("core", ra, None, d)
        /\ CountEnter
        /\ UNCHANGED snaps
  \/ \E d \in Ticks(LoopClock) : PartExit(d) /\ UNCHANGED auxVars
  \/ \E e \in Raised : PartRaise(e) /\ UNCHANGED auxVars

SpecLoop == InitDefault /\ [][NextLoop]_vars

\* The names asked for: the two of PartArgs and one never used.
AskedNames == {"setup", "core", "nope"}
\* The sections asked for: the three known and one unknown.
AskedSections == Sections \cup {"bogus"}
\* No reporting call has given its last answer yet: no list(g), no
\* get_stats_parts, and no next(g) that ended the generator.
Measuring ==
  /\ query.op \notin {"list", "get_stats_parts"}
  /\ query.op = "next" => query.outcome = "yield"

\* Scopes inside and outside the loop of a run constructed and iterated,
\* up to the end of its last iteration, and one reporting call: a
\* generator made at any moment and consumed at any later ones, by next(g)
\* with calls on the object in between or by list(g), or get_stats_parts.
\* Time passes in the bodies of the scopes only.
NextReport ==
  \/ Measuring /\ __iter__(0) /\ UNCHANGED auxVars
  \/ /\ Measuring
     /\ lastlooptime # None
     /\ current_iteration < default_repeat
     /\ __next__(0)
     /\ UNCHANGED auxVars
  \/ \E pn \in PartArgs, ra \in BOOLEAN :
        /\ Measuring
        /\ Inconsistent(PartName(pn, ra), ra) \/ opened < RepOpened
        /\ MayEnter(pn, ra, RepDepth)
        /\ PartEnter(pn, ra, None, 0)
        /\ CountEnter
        /\ UNCHANGED snaps
  \/ \E d \in Ticks(RepClock) : Measuring /\ PartExit(d) /\ UNCHANGED auxVars
  \/ \E e \in Raised : Measuring /\ PartRaise(e) /\ UNCHANGED auxVars
  \/ \E p \in AskedNames : Measuring /\ gen = None /\ iter_measures_part(p)
  \/ \E section \in AskedSections :
        Measuring /\ gen = None /\ iter_measures_parts_globalized(section)
  \/ Measuring /\ GenNext
  \/ Measuring /\ Consume
  \/ Measuring /\ gen = None /\ get_stats_parts

SpecReport == InitDefault /\ [][NextReport]_vars

\* _get_stats applied to any sequence of durations and Nones.
RECURSIVE SeqsUpTo(_, _)
SeqsUpTo(S, n) ==
  IF n = 0 THEN {<< >>}
  ELSE LET shorter == SeqsUpTo(S, n - 1)
       IN  shorter \cup {Append(q, x) : q \in shorter, x \in S}

Measures == SeqsUpTo({None} \cup {Some(v) : v \in 0..MaxVal}, MaxLen)

InitStats ==
  /\ InitRun
  /\ measures \in Measures
  /\ stat = None

\* stat = BenchReport._get_stats(measures)
GetStats ==
  /\ stat' = Some(_get_stats(measures))
  /\ UNCHANGED << runVars, order, gc_enabled, now, stack, last, histVars, auxVars,
                  measures, queryVars >>

SpecStats == InitStats /\ [][GetStats]_vars

\* ================================================================ claims
\* The last call was __next__ and it returned an item.
Yielded == last.op = "next" /\ last.outcome = "yield"
\* The last call was __next__ and it raised StopIteration.
Stopped == last.op = "next" /\ last.outcome = "StopIteration"
\* <<1, 2, ..., n>>
Iota(n) == [k \in 1..n |-> k]

\* C1: a drive yields the items 1, 2, ..., N in that order and then signals
\* the end of the sequence: whenever __next__ returns an item, the items
\* returned since __iter__ are 1..current_iteration and there are at most N
\* of them; whenever it raises StopIteration, they are exactly 1..N (none
\* when N = 0).
C1_YieldsOneToN ==
  /\ Yielded => /\ yielded = Iota(current_iteration)
                /\ current_iteration \in 1..default_repeat
  /\ Stopped => yielded = Iota(default_repeat)

C1_Witness == Stopped /\ default_repeat = 3 /\ yielded = << 1, 2, 3 >>

\* C2 as stated: after __call__(N), N >= 1, __iter__ and the calls of
\* __next__ up to the first StopIteration, loop_benches has max(N-1, 0)
\* entries.
C2_Original ==
  (phase = "done" /\ default_repeat >= 1) =>
     Len(loop_benches) = (IF default_repeat - 1 > 0 THEN default_repeat - 1 ELSE 0)

\* C2 amended: after __call__(N), N >= 1, __iter__ and the calls of
\* __next__ up to the first StopIteration, loop_benches has N entries: only
\* the first call of __next__ records no delta.
C2_SamplesEqualRepeat ==
  (phase = "done" /\ default_repeat >= 1) => Len(loop_benches) = default_repeat

C2_Witness == phase = "done" /\ default_repeat = 3 /\ Len(loop_benches) = 3

\* C3: once the sequence has terminated, for every repeat count and with
\* scopes entered, left and failed at any moment of the loop and after it,
\* overhead = totaltime - totalitertime, totalitertime is the sum of
\* loop_benches and, the timer never going back, totaltime >= totalitertime.
C3_Overhead ==
  (Stopped \/ phase = "done") =>
     /\ Val(overhead) = Val(totaltime) - Val(totalitertime)
     /\ Val(totalitertime) = Sum(loop_benches)
     /\ Val(totaltime) >= Val(totalitertime)

C3_Witness ==
  /\ Stopped
  /\ default_repeat = 2
  /\ Len(loop_benches) = 2
  /\ \E i \in DOMAIN parts_benches : i = 0 /\ "core" \in DOMAIN parts_benches[i]
  /\ \E i \in DOMAIN parts_benches : i = 1 /\ "core" \in DOMAIN parts_benches[i]
  /\ Val(totalitertime) > 0
  /\ Val(overhead) > 0

\* C4: a call of part() whose name is registered under the other class
\* raises AttributeError and leaves both name sets as they were.
C4_NoClassChange ==
  [][ (/\ last'.op = "part"
       /\ last'.partname \in (IF last'.report_apart THEN parts_names ELSE apart_names))
      => /\ last'.outcome = "AttributeError"
         /\ parts_names' = parts_names
         /\ apart_names' = apart_names ]_vars

C4_Witness ==
  /\ last.op = "part"
  /\ last.outcome = "AttributeError"
  /\ last.report_apart
  /\ last.partname \in parts_names
  /\ last.partname \notin apart_names

\* C5: parts_names and apart_names are always disjoint, and no scope
\* entered, left or failed and no __iter__ or __next__ takes a name out of
\* either set: only __call__ does, and reset() by itself.
C5_ClassesDisjoint ==
  /\ [](parts_names \cap apart_names = {})
  /\ [][ last'.op \notin {"call", "reset"} =>
            /\ parts_names \subseteq parts_names'
            /\ apart_names \subseteq apart_names' ]_vars

C5_Witness ==
  /\ apart_names = {"core"}
  /\ parts_names = {}
  /\ last.op = "exit"
  /\ last.raised = "Exception"
  /\ current_iteration = 1

\* The sample of part p in iteration i of the store b, None when there is none.
Cell(b, i, p) == IF i \in DOMAIN b /\ p \in DOMAIN b[i] THEN Some(b[i][p]) ELSE None
AllNames == {"setup", "core"}

\* C6: when the body of a scope ends normally, its delta is added to the
\* sample of its part under its iteration (0 standing for no sample yet)
\* and every other sample of both stores stays what it was.
C6_Accumulates ==
  [][ (last'.op = "exit" /\ last'.raised = "ok" /\ stack # << >>) =>
        LET sc == stack[Len(stack)]
            delta == now' - sc.start_time
            own == IF sc.report_apart THEN apart_benches ELSE parts_benches
            ownAfter == IF sc.report_apart THEN apart_benches' ELSE parts_benches'
            other == IF sc.report_apart THEN parts_benches ELSE apart_benches
            otherAfter == IF sc.report_apart THEN parts_benches' ELSE apart_benches'
            before == Cell(own, sc.i, sc.partname)
            iters == DOMAIN parts_benches \cup DOMAIN apart_benches
                     \cup DOMAIN parts_benches' \cup DOMAIN apart_benches'
        IN  sc.live =>
              /\ Cell(ownAfter, sc.i, sc.partname)
                   = Some((IF before = None THEN 0 ELSE Val(before)) + delta)
              /\ \A i \in iters, p \in AllNames :
                    /\ (i # sc.i \/ p # sc.partname) => Cell(ownAfter, i, p) = Cell(own, i, p)
                    /\ Cell(otherAfter, i, p) = Cell(other, i, p) ]_vars

C6_Witness ==
  /\ last.op = "exit"
  /\ last.outcome = "ok"
  /\ \E i \in DOMAIN parts_benches : Cell(parts_benches, i, "setup") = Some(2)

\* C7 as stated: when the body of a scope fails, the stores and
\* loop_benches are what they were before the scope was opened, the timer
\* is not read and the caller gets what the body raised.
C7_Original ==
  [][ (last'.op = "exit" /\ last'.raised \in Raised /\ snaps # << >>) =>
        /\ << parts_benches', apart_benches', loop_benches' >> = snaps[Len(snaps)]
        /\ now' = now
        /\ last'.outcome = last'.raised ]_vars

\* C7 amended: when the body of a scope fails, the exit records nothing:
\* the stores and loop_benches are what they were when the body failed, the
\* timer is not read and the caller gets what the body raised.
C7_FailRecordsNothing ==
  [][ (last'.op = "exit" /\ last'.raised \in Raised) =>
        /\ parts_benches' = parts_benches
        /\ apart_benches' = apart_benches
        /\ loop_benches' = loop_benches
        /\ now' = now
        /\ last'.outcome = last'.raised ]_vars

C7_Witness ==
  /\ last.op = "exit"
  /\ last.raised \in Raised
  /\ stack = << >>
  /\ Cell(parts_benches, 0, "setup") # None

\* C8: when a scope is left, normally or by a failure of its body, the
\* collector is enabled if and only if it was when the scope was entered.
C8_GcRestored ==
  [][ (last'.op = "exit" /\ stack # << >>) =>
        gc_enabled' = stack[Len(stack)].gcold ]_vars

\* The positions of measures that hold a duration.
Present(ms) == {k \in 1..Len(ms) : ms[k] # None}
RECURSIVE SumAt(_, _)
\* The sum of the durations at the positions K.
SumAt(ms, K) ==
  IF K = {} THEN 0
  ELSE LET k == CHOOSE x \in K : TRUE IN Val(ms[k]) + SumAt(ms, K \ {k})
\* The smallest duration.
MinOf(ms) ==
  CHOOSE v \in {Val(ms[k]) : k \in Present(ms)} : \A k \in Present(ms) : v <= Val(ms[k])
\* The rational x is a / b.
Is(x, a, b) == x.num * b = a * x.den

\* C9: _get_stats returns the number of durations present, their sum and
\* their minimum (both in ms, that is divided by ns_to_ms) and the average
\* total / n; without a duration present it returns total 0, n 0 and no
\* average and no minimum. It changes nothing of the object.
C9_Stats ==
  /\ [](stat # None =>
          LET r == Val(stat)
              K == Present(measures)
              total == SumAt(measures, K)
              count == Cardinality(K)
          IN  /\ r.n = count
              /\ Is(r.total, total, ns_to_ms)
              /\ count > 0 => /\ r.avg # None
                              /\ Is(Val(r.avg), total, ns_to_ms * count)
                              /\ r.min # None
                              /\ Is(Val(r.min), MinOf(measures), ns_to_ms)
              /\ count = 0 => /\ r.avg = None
                              /\ r.min = None
                              /\ r.total.num = 0)
  /\ [][UNCHANGED << runVars, gc_enabled, now, stack >>]_vars

C9_Witness == stat # None /\ measures = << Some(2), None, Some(1) >>

\* C10: __call__ leaves both stores, loop_benches and both name sets
\* empty, current_iteration 0, _lastlooptime and the totals None,
\* _startlooptime the reading of the timer it took, and default_repeat its
\* argument unless that is None.
C10_BeginResets ==
  [][ last'.op = "call" =>
        /\ parts_benches' = EmptyDict
        /\ apart_benches' = EmptyDict
        /\ loop_benches' = << >>
        /\ parts_names' = {}
        /\ apart_names' = {}
        /\ current_iteration' = 0
        /\ lastlooptime' = None
        /\ totaltime' = None
        /\ totalitertime' = None
        /\ overhead' = None
        /\ startlooptime' = Some(now')
        /\ default_repeat' = (IF last'.n # None THEN Val(last'.n) ELSE default_repeat) ]_vars

C10_Witness ==
  /\ last.op = "call"
  /\ last.n = Some(0)
  /\ stack # << >>
  /\ startlooptime = Some(1)

\* The row of the report for a section of a group.
RowOf(typ, section) == CHOOSE r \in report : r.typ = typ /\ r.section = section
\* The durations recorded for the part p in the store b.
RECURSIVE Recorded(_, _, _)
Recorded(b, p, I) ==
  IF I = {} THEN 0
  ELSE LET i == CHOOSE x \in I : TRUE
       IN  (IF p \in DOMAIN b[i] THEN b[i][p] ELSE 0) + Recorded(b, p, I \ {i})

\* C11: after "for _ in T(N)" with N >= 1 whose body opens one inline
\* scope "setup" and one separate scope "core", get_stats_parts returns five
\* rows: parts/setup, parts/SUBTOTAL, aparts/core, aparts/SUBTOTAL and
\* P+A/TOTAL, each with n = N; in ms, the total of parts/SUBTOTAL is the
\* durations recorded for "setup", that of aparts/SUBTOTAL those recorded
\* for "core" and that of P+A/TOTAL the sum of the two.
C11_Report ==
  query.op = "get_stats_parts" =>
    LET setup == Recorded(parts_benches, "setup", DOMAIN parts_benches)
        core == Recorded(apart_benches, "core", DOMAIN apart_benches)
    IN  /\ {<< r.typ, r.section >> : r \in report}
             = {<< "parts", "setup" >>, << "parts", "SUBTOTAL" >>, << "aparts", "core" >>,
                << "aparts", "SUBTOTAL" >>, << "P+A", "TOTAL" >>}
        /\ Cardinality(report) = 5
        /\ \A r \in report : r.stat.n = default_repeat
        /\ Is(RowOf("parts", "SUBTOTAL").stat.total, setup, ns_to_ms)
        /\ Is(RowOf("aparts", "SUBTOTAL").stat.total, core, ns_to_ms)
        /\ Is(RowOf("P+A", "TOTAL").stat.total, setup + core, ns_to_ms)

C11_Witness ==
  /\ query.op = "get_stats_parts"
  /\ default_repeat = 2
  /\ Recorded(parts_benches, "setup", DOMAIN parts_benches) = 1
  /\ Recorded(apart_benches, "core", DOMAIN apart_benches) = 2

\* C12: a call of iter_measures_part with a name in neither name set, and
\* a call of iter_measures_parts_globalized with a section other than
\* "parts", "aparts" and "all", raises KeyError at the call, and leaves the
\* object as it was.
C12_FailsAtCall ==
  [][ (gen = None /\ gen' # None) =>
        LET g == Val(gen')
            unknown == IF g.fn = "iter_measures_part"
                       THEN g.arg \notin parts_names \cup apart_names
                       ELSE g.arg \notin {"parts", "aparts", "all"}
        IN  /\ unknown => query'.outcome = "KeyError"
            /\ UNCHANGED << runVars, order, gc_enabled, now, stack >> ]_vars

\* C13: a call of part() that raises AttributeError reads no timer and
\* leaves the stores, the name sets and the state of the collector as they
\* were.
C13_FailedOpenNoEffect ==
  [][ (last'.op = "part" /\ last'.outcome = "AttributeError") =>
        /\ now' = now
        /\ parts_benches' = parts_benches
        /\ apart_benches' = apart_benches
        /\ parts_names' = parts_names
        /\ apart_names' = apart_names
        /\ gc_enabled' = gc_enabled ]_vars

\* The number of positions of the sequence ts that hold v.
Count(ts, v) == Cardinality({k \in DOMAIN ts : ts[k] = v})
\* The sequence ts holds the values of the function f on I, each once.
HoldsEach(ts, f, I) ==
  /\ Len(ts) = Cardinality(I)
  /\ \A k \in DOMAIN ts : Count(ts, ts[k]) = Cardinality({i \in I : f[i] = ts[k]})
\* The generator that list(g) runs in this step from the top of its body
\* to its end, None when there is none.
Consumed ==
  IF gen # None /\ gen' = None /\ query'.op = "list" /\ ~Val(gen).started THEN gen ELSE None
\* The generator that next(g) resumes in this step, as it stands before
\* the step and reading the dicts of the object; None when there is none.
Resumed ==
  IF /\ gen # None
     /\ query'.op = "next"
     /\ gen' = None \/ Val(gen').pos > Val(gen).pos
     /\ Val(gen).own = None
  THEN gen ELSE None
\* What one next(g) does when the loop of g has value(i) to yield for the
\* iteration key i, None standing for nothing: it passes the keys without
\* a value and yields the value of the first key that has one, or ends
\* after the last key; it raises RuntimeError exactly when an iteration key
\* was added since it started, and KeyError never.
Lazily(value(_)) ==
  LET g == Val(Resumed)
      grown == g.started /\ Len(order) # g.size
  IN  /\ query'.outcome # "KeyError"
      /\ query'.outcome = "RuntimeError" <=> grown
      /\ query'.outcome = "yield" =>
            LET k == Val(gen').pos
            IN  /\ k \in (g.pos + 1)..Len(order)
                /\ \A m \in (g.pos + 1)..(k - 1) : value(order[m]) = None
                /\ value(order[k]) # None
                /\ produced' = Append(produced, Val(value(order[k])))
      /\ query'.outcome = "StopIteration" =>
            /\ \A m \in (g.pos + 1)..Len(order) : value(order[m]) = None
            /\ produced' = produced

\* The sample of the part P under each iteration key, None without one.
SampleOf(P) ==
  [i \in DOMAIN parts_benches \cup DOMAIN apart_benches |->
     IF Has(parts_benches, i, P) THEN Some(parts_benches[i][P])
     ELSE IF Has(apart_benches, i, P) THEN Some(apart_benches[i][P])
     ELSE None]

\* C14: consuming iter_measures_part(P) for a registered name P of either
\* class yields, once each, the samples of P of the iterations that hold
\* one, and nothing for the other iterations; consumed one next(g) at a
\* time, it yields the sample P has at that moment under the next
\* iteration that holds one, so long as no iteration key was added.
C14_PartSamples ==
  /\ [][ (/\ Consumed # None
           /\ Val(Consumed).fn = "iter_measures_part"
           /\ Val(Consumed).arg \in parts_names \cup apart_names) =>
            LET sample == SampleOf(Val(Consumed).arg)
                I == {i \in DOMAIN sample : sample[i] # None}
            IN  /\ query'.outcome = "ok"
                /\ HoldsEach(produced', [i \in I |-> Val(sample[i])], I) ]_vars
  /\ [][ (/\ Resumed # None
           /\ Val(Resumed).fn = "iter_measures_part"
           /\ Val(Resumed).arg \in parts_names \cup apart_names) =>
            Lazily(LAMBDA i : SampleOf(Val(Resumed).arg)[i]) ]_vars

C14_Witness ==
  /\ query = Asked("list", "core", "ok")
  /\ "core" \in apart_names
  /\ DOMAIN apart_benches = {0, 1}
  /\ ~Has(apart_benches, 0, "core")
  /\ produced = << 1 >>

\* The sum of the durations of the dict d over the parts ps.
RECURSIVE TotalOf(_, _)
TotalOf(d, ps) ==
  IF ps = {} THEN 0
  ELSE LET p == CHOOSE x \in ps : TRUE IN d[p] + TotalOf(d, ps \ {p})

\* The sum of the durations of the iteration i over the stores of the
\* section, None when no part is recorded there.
TotalAt(section, i) ==
  LET inl == section # "aparts" /\ i \in DOMAIN parts_benches /\ DOMAIN parts_benches[i] # {}
      sep == section # "parts" /\ i \in DOMAIN apart_benches /\ DOMAIN apart_benches[i] # {}
  IN  IF ~inl /\ ~sep THEN None
      ELSE Some((IF inl THEN TotalOf(parts_benches[i], DOMAIN parts_benches[i]) ELSE 0)
                + (IF sep THEN TotalOf(apart_benches[i], DOMAIN apart_benches[i]) ELSE 0))

\* C15: consuming iter_measures_parts_globalized(section) for "parts",
\* "aparts" or "all" yields, once for each iteration that has a part
\* recorded in the stores of the section, the sum of the durations of that
\* iteration over those stores, and nothing for the other iterations; the
\* value of "all" is the sum of those of "parts" and "aparts"; consumed one
\* next(g) at a time, it yields the sum that the next iteration with a part
\* recorded has at that moment, so long as no iteration key was added.
C15_IterationTotals ==
  /\ [][ (/\ Resumed # None
           /\ Val(Resumed).fn = "iter_measures_parts_globalized"
           /\ Val(Resumed).arg \in {"parts", "aparts", "all"}) =>
            Lazily(LAMBDA i : TotalAt(Val(Resumed).arg, i)) ]_vars
  /\ [][ (/\ Consumed # None
       /\ Val(Consumed).fn = "iter_measures_parts_globalized"
       /\ Val(Consumed).arg \in {"parts", "aparts", "all"}) =>
        LET section == Val(Consumed).arg
            inline == [i \in DOMAIN parts_benches |->
                         TotalOf(parts_benches[i], DOMAIN parts_benches[i])]
            separate == [i \in DOMAIN apart_benches |->
                           TotalOf(apart_benches[i], DOMAIN apart_benches[i])]
            Iinline == {i \in DOMAIN parts_benches : DOMAIN parts_benches[i] # {}}
            Iseparate == {i \in DOMAIN apart_benches : DOMAIN apart_benches[i] # {}}
            both == [i \in Iinline \cup Iseparate |->
                       (IF i \in Iinline THEN inline[i] ELSE 0)
                       + (IF i \in Iseparate THEN separate[i] ELSE 0)]
        IN  /\ query'.outcome = "ok"
            /\ section = "parts" => HoldsEach(produced', inline, Iinline)
            /\ section = "aparts" => HoldsEach(produced', separate, Iseparate)
            /\ section = "all" => HoldsEach(produced', both, Iinline \cup Iseparate) ]_vars

C15_Witness ==
  /\ query = Asked("list", "all", "ok")
  /\ Len(produced) = 2
  /\ \E i \in DOMAIN parts_benches :
        DOMAIN parts_benches[i] = {} /\ Has(apart_benches, i, "core")

\* C16: current_iteration stays within 0..default_repeat; a __next__ after
\* __call__ and __iter__ adds 1 to it and returns it when it is below
\* default_repeat, and otherwise leaves it at default_repeat and raises
\* StopIteration; entering and leaving a scope do not change it.
C16_CounterBounds ==
  /\ [](current_iteration \in 0..default_repeat)
  /\ [][ (last'.op = "next" /\ startlooptime # None /\ lastlooptime # None) =>
            IF current_iteration < default_repeat
            THEN /\ current_iteration' = current_iteration + 1
                 /\ last'.outcome = "yield"
            ELSE /\ current_iteration' = default_repeat
                 /\ current_iteration = default_repeat
                 /\ last'.outcome = "StopIteration" ]_vars
  /\ [][ last'.op \in {"part", "exit"} => current_iteration' = current_iteration ]_vars

C16_Witness ==
  /\ last.op = "next"
  /\ last.outcome = "StopIteration"
  /\ startlooptime # None
  /\ current_iteration = 1
  /\ default_repeat = 1
  /\ stack # << >>

\* C17: parts_benches and apart_benches have the same iteration keys, and
\* every key has a sample in at least one of them (the commit that made the
\* key made it in both stores).
C17_SameKeys ==
  /\ DOMAIN parts_benches = DOMAIN apart_benches
  /\ \A i \in DOMAIN parts_benches \cup DOMAIN apart_benches :
        \/ i \in DOMAIN parts_benches /\ DOMAIN parts_benches[i] # {}
        \/ i \in DOMAIN apart_benches /\ DOMAIN apart_benches[i] # {}

C17_Witness ==
  /\ last.op = "exit"
  /\ last.outcome = "ok"
  /\ 1 \in DOMAIN parts_benches
  /\ DOMAIN parts_benches[1] = {}
  /\ Has(apart_benches, 1, "core")

\* C18: after __call__, __iter__ and the calls of __next__ up to the first
\* StopIteration, overhead is the timer reading of the first __next__ minus
\* _startlooptime, and totalitertime is the reading of the last __next__
\* minus that of the first.
C18_OverheadIsLeadIn ==
  phase = "done" =>
    /\ firstnext # None
    /\ Val(overhead) = Val(firstnext) - Val(startlooptime)
    /\ Val(totalitertime) = Val(lastlooptime) - Val(firstnext)

C18_Witness ==
  /\ phase = "done"
  /\ default_repeat = 1
  /\ startlooptime = Some(0)
  /\ firstnext = Some(2)
  /\ overhead = Some(2)
  /\ totalitertime = Some(1)

\* C19: the scope entered keeps the value current_iteration has at that
\* moment (0 between __call__ and the first __next__, default_repeat after
\* the StopIteration), and its normal exit commits under that value: when
\* current_iteration has moved on, the sample of its part under the newer
\* value stays what it was.
C19_OpenTimeIndex ==
  /\ [][ (last'.op = "part" /\ last'.outcome = "ok") =>
            /\ stack'[Len(stack')].i = current_iteration
            /\ phase = "begun" => stack'[Len(stack')].i = 0
            /\ phase = "done" => stack'[Len(stack')].i = default_repeat ]_vars
  /\ [][ (last'.op = "exit" /\ last'.raised = "ok" /\ stack # << >>) =>
            LET sc == stack[Len(stack)]
                own == IF sc.report_apart THEN apart_benches ELSE parts_benches
                ownAfter == IF sc.report_apart THEN apart_benches' ELSE parts_benches'
                before == Cell(own, sc.i, sc.partname)
            IN  sc.live =>
                  /\ Cell(ownAfter, sc.i, sc.partname)
                       = Some((IF before = None THEN 0 ELSE Val(before)) + now' - sc.start_time)
                  /\ sc.i # current_iteration =>
                        Cell(ownAfter, current_iteration, sc.partname)
                          = Cell(own, current_iteration, sc.partname) ]_vars

C19_Witness ==
  /\ last.op = "exit"
  /\ last.outcome = "ok"
  /\ phase = "driving"
  /\ current_iteration = 1
  /\ Cell(apart_benches, 0, "core") = Some(1)
  /\ Cell(apart_benches, 1, "core") = None

\* The name P is registered and no iteration holds a sample for it.
NoSample(P) ==
  /\ P \in parts_names \cup apart_names
  /\ \A i \in DOMAIN parts_benches : P \notin DOMAIN parts_benches[i]
  /\ \A i \in DOMAIN apart_benches : P \notin DOMAIN apart_benches[i]

\* C20: the name of a scope is in the name set of its class from the
\* moment the scope is entered, and a body that fails leaves the name sets
\* as they are. For a name registered without a sample, part() under the
\* other class raises AttributeError, iter_measures_part yields nothing and
\* get_stats_parts has its row with n = 0 and neither avg nor min.
C20_RegisteredAtOpen ==
  /\ [](\A k \in DOMAIN stack :
          stack[k].live =>
            stack[k].partname \in (IF stack[k].report_apart THEN apart_names ELSE parts_names))
  /\ [][ (last'.op = "exit" /\ last'.raised \in Raised) =>
            parts_names' = parts_names /\ apart_names' = apart_names ]_vars
  /\ [][ (/\ last'.op = "part"
           /\ NoSample(last'.partname)
           /\ last'.partname \in (IF last'.report_apart THEN parts_names ELSE apart_names))
          => last'.outcome = "AttributeError" ]_vars
  /\ [][ (/\ Consumed # None
           /\ Val(Consumed).fn = "iter_measures_part"
           /\ NoSample(Val(Consumed).arg))
          => query'.outcome = "ok" /\ produced' = << >> ]_vars
  /\ [][ (query.op # "get_stats_parts" /\ query'.op = "get_stats_parts") =>
            \A P \in parts_names \cup apart_names :
              NoSample(P) =>
                \E r \in report' :
                  /\ r.typ = (IF P \in parts_names THEN "parts" ELSE "aparts")
                  /\ r.section = P
                  /\ r.stat.n = 0
                  /\ r.stat.avg = None
                  /\ r.stat.min = None ]_vars

C20_Witness ==
  /\ last.op = "exit"
  /\ last.raised = "Exception"
  /\ opened = 1
  /\ apart_names = {"core"}
  /\ query.op = "get_stats_parts"
  /\ \E r \in report :
        r.typ = "aparts" /\ r.section = "core" /\ r.stat.n = 0 /\ r.stat.avg = None

====
